---- MODULE Spec2Model ----
(***************************************************************************)
(* Hourly-high aggregation over a differential collection of trades.      *)
(*                                                                         *)
(* The program (src/src/main.rs) stages trades in an InputSession, commits *)
(* them with advance_to + flush, and runs the dataflow                     *)
(*     trades.map(key by (hour, market)).reduce(max price).map(drop key)   *)
(* whose output diffs are printed by inspect.  The state below is what     *)
(* that program holds: the session's stage buffer and pending time, the    *)
(* input handle's epoch and the updates handed to the dataflow, the reduce *)
(* operator's accumulated input and output, and the tuples the sink saw.   *)
(* Prices are exact decimals; they are modelled by integers.               *)
(***************************************************************************)
EXTENDS Integers, Sequences, FiniteSets, TLC

VARIABLES
    buffer,        \* InputSession: staged (trade, time, diff) updates, in staging order
    time,          \* InputSession: pending logical time
    epoch,         \* input handle: the logical time the input has been advanced to
    sent,          \* updates handed to the dataflow and not yet processed, in arrival order
    closed,        \* the session has been dropped and the input closed
    done,          \* reduce operator: logical times below this have been processed
    input_trace,   \* reduce operator: net multiplicity per (key, price)
    output_trace,  \* reduce operator: net multiplicity per produced FHLLVData
    sink,          \* inspect: the (data, time, diff) tuples observed so far
    prev_trace,    \* history: input_trace as it was before the latest step
    nops,          \* number of insert/remove calls made so far
    panicked,      \* a failed assertion has aborted the worker
    drawn,         \* history: what the generator drew for each trade it built, in order
    owner,         \* run with several workers: the worker each key is exchanged to
    returned,      \* run with several workers: the peers whose closure has returned
    wstate         \* run with several workers: each worker's reduce operator and sink

\* The variables of a run with several workers
wvars == <<owner, returned, wstate>>

vars == <<buffer, time, epoch, sent, closed, done, input_trace, output_trace, sink,
          prev_trace, nops, panicked, drawn, owner, returned, wstate>>

----------------------------------------------------------------------------
(* Bounds of the exploration *)

MaxOps == 3     \* insert/remove calls per run

\* input.advance_to(1): the logical times of the program are 0 and 1
AdvanceTime == 1

----------------------------------------------------------------------------
(* Records *)

\* Decimal::MIN, the start value of the fold; below every price of the model
DecimalMIN == -2147483647

Trade(ts, m, p) == [timestamp |-> ts, market |-> m, price |-> p]

\* The trades the session is given.  Two prices and two equal-priced trades in the first
\* hour and market the generator draws from, and a trade of another market in an hour
\* before the Unix epoch.
Trades ==
    { Trade(1717192860, 0, 10), Trade(1717193300, 0, 15), Trade(1717193700, 0, 15),
      Trade(-3700, 1, 15) }

\* Range of the generator: market indices 0..NUM_MARKETS-1, timestamps in
\* START_TIME..=END_TIME, prices in 1.0..100000.0
NUM_MARKETS == 700
START_TIME == 1717192800
END_TIME == 1735599599

\* Decimal keeps 28 decimal places and an f64 in the price range has up to 52 binary
\* places.  In the model a step of Decimal is 1 and a step of f64 is 1/Quantum: an f64
\* sample is an integer number of quarters.
Quantum == 4

\* The sample is a value Decimal holds exactly
Exact(x) == x % Quantum = 0

\* Decimal::from_f64_retain(x).unwrap() for a finite x in the price range: Some(the
\* nearest value Decimal holds), never None.  The samples of the model are less than
\* half a step away from it, so rounding and truncation agree on them.
from_f64_retain(x) == (x + Quantum \div 2) \div Quantum

\* What the generator draws for a trade: the market of the outer loop, a timestamp from
\* time_dist and a price sample from price_dist
Draw(m, ts, x) == [market |-> m, timestamp |-> ts, sample |-> x]

Generated(d) ==
    /\ d.market \in 0..(NUM_MARKETS - 1)
    /\ d.timestamp \in START_TIME..END_TIME
    /\ d.sample >= 1 * Quantum /\ d.sample < 100000 * Quantum

\* The draws of the model: the prices 10, 15 and 15.25 in the first hour of the first
\* market, and 10 in the last second of the last market
GenDraws ==
    { d \in { Draw(0, 1717192860, 40), Draw(0, 1717193300, 60), Draw(0, 1717193700, 61),
              Draw(NUM_MARKETS - 1, END_TIME, 40) } : Generated(d) }

\* let trade = Trade { timestamp, market, price };
TradeOf(d) == Trade(d.timestamp, d.market, from_f64_retain(d.sample))

GenTrades == { TradeOf(d) : d \in GenDraws }

\* i64 division truncates toward zero
TruncDiv(a, b) == IF a >= 0 THEN a \div b ELSE -((-a) \div b)

round_down_to_hour(ts) == TruncDiv(ts, 3600) * 3600

\* first map of compute_hourly_data: ((hour_ts, market), price)
KeyOf(trade) == <<round_down_to_hour(trade.timestamp), trade.market>>
KeyVal(trade) == <<KeyOf(trade), trade.price>>

Keys == { KeyOf(tr) : tr \in Trades \cup GenTrades }
AllPrices == { tr.price : tr \in Trades \cup GenTrades }
KVs == Keys \X AllPrices

FHLLVData(k, h) == [timestamp |-> k[1], market |-> k[2], high |-> h]
Records == { FHLLVData(k, h) : k \in Keys, h \in AllPrices \cup {DecimalMIN} }
RecKey(r) == <<r.timestamp, r.market>>

Update(tr, t, d) == [data |-> tr, time |-> t, diff |-> d]

----------------------------------------------------------------------------
(* The reduce operator *)

\* (mutation of AddCount: set semantics, an insertion makes the value present and a
\* retraction makes it absent)
AddCountSet(a, b) == IF b > 0 THEN 1 ELSE 0

\* (mutation of AddCount: multiplicities clamped at zero)
AddCountClamped(a, b) == IF a + b < 0 THEN 0 ELSE a + b

\* isize addition of multiplicities
AddCount(a, b) == a + b

\* Accumulate a sequence of updates, in order, into net multiplicities per (key, price)
RECURSIVE Accumulate(_, _)
Accumulate(acc, ups) ==
    IF ups = <<>> THEN acc
    ELSE LET u == Head(ups)
             kv == KeyVal(u.data)
         IN Accumulate([acc EXCEPT ![kv] = AddCount(@, u.diff)], Tail(ups))

ZeroTrace == [kv \in KVs |-> 0]
ZeroOut == [r \in Records |-> 0]

\* (mutation of PricesOf: the prices of every key are taken, not only those of the key)
PricesOfAll(trace, k) == { p \in AllPrices : \E k2 \in Keys : trace[<<k2, p>>] # 0 }

\* The closure's `input`: the (price, count) pairs of a key whose accumulated count
\* is not zero, in increasing price order
PricesOf(trace, k) == { p \in AllPrices : trace[<<k, p>>] # 0 }

MinOf(S) == CHOOSE x \in S : \A y \in S : x <= y

RECURSIVE SortedInput(_, _, _)
SortedInput(trace, k, S) ==
    IF S = {} THEN <<>>
    ELSE LET p == MinOf(S)
         IN <<<<p, trace[<<k, p>>]>>>> \o SortedInput(trace, k, S \ {p})

\* (mutation of DecimalMax: min instead of max)
DecimalMin(a, b) == IF a <= b THEN a ELSE b

\* Decimal's Ord::max
DecimalMax(a, b) == IF a <= b THEN b ELSE a

\* for (price, _count) in input.iter() { high_price = high_price.max(**price); }
RECURSIVE FoldHigh(_, _)
FoldHigh(high_price, input) ==
    IF input = <<>> THEN high_price
    ELSE FoldHigh(DecimalMax(high_price, Head(input)[1]), Tail(input))

\* (mutation of ReduceLogic: nothing is pushed to `output`)
ReduceLogicNone(k, input) == <<>>

\* (mutation of ReduceLogic: one record pushed per input price)
ReduceLogicEach(k, input) ==
    [i \in 1..Len(input) |-> <<FHLLVData(k, input[i][1]), 1>>]

\* (mutation of ReduceLogic: the record is pushed with the count of the highest price)
ReduceLogicCount(k, input) ==
    << <<FHLLVData(k, FoldHigh(DecimalMIN, input)), input[Len(input)][2]>> >>

\* The closure given to reduce: the (FHLLVData, count) pairs it pushes to `output`
ReduceLogic(k, input) ==
    LET high_price == FoldHigh(DecimalMIN, input)
    IN << <<FHLLVData(k, high_price), 1>> >>

\* The multiplicities a pushed output gives each record
RECURSIVE OutputCounts(_, _)
OutputCounts(acc, output) ==
    IF output = <<>> THEN acc
    ELSE OutputCounts([acc EXCEPT ![Head(output)[1]] = @ + Head(output)[2]], Tail(output))

\* (mutation of ReduceKey: the closure is invoked on an empty input too)
ReduceKeyAlways(trace, k) ==
    OutputCounts(ZeroOut, ReduceLogic(k, SortedInput(trace, k, PricesOf(trace, k))))

\* reduce invokes the closure only when the key's accumulated input is not empty
ReduceKey(trace, k) ==
    LET input == SortedInput(trace, k, PricesOf(trace, k))
    IN IF input = <<>> THEN ZeroOut ELSE OutputCounts(ZeroOut, ReduceLogic(k, input))

\* (mutation of Change: the recomputed output is emitted as it is, without subtracting
\* what was produced before)
ChangeFromScratch(old, new, k) ==
    { <<r, new[r]>> : r \in { x \in Records : RecKey(x) = k /\ new[x] # 0 } }

\* (mutation of Change: only insertions are emitted, what was produced before is never
\* retracted)
ChangeInsertOnly(old, new, k) ==
    { <<r, new[r] - old[r]>> : r \in { x \in Records : RecKey(x) = k /\ new[x] > old[x] } }

\* (mutation of Change: the old output is retracted and the new one inserted without
\* consolidating the two)
ChangeAll(old, new, k) ==
    { <<r, -old[r]>> : r \in { x \in Records : RecKey(x) = k /\ old[x] # 0 } }
    \cup { <<r, new[r]>> : r \in { x \in Records : RecKey(x) = k /\ new[x] # 0 } }

\* The change reduce emits for a key: new output minus the output produced so far,
\* consolidated
Change(old, new, k) ==
    { <<r, new[r] - old[r]>> : r \in { x \in Records : RecKey(x) = k /\ new[x] # old[x] } }

\* (mutation of Complete: the pending time itself counts as complete)
CompleteEager(t) == closed \/ t <= epoch

\* A logical time is complete once the input has advanced beyond it or has closed
Complete(t) == closed \/ t < epoch

\* (mutation of BatchAt: every pending diff of that or a later time is taken)
BatchFrom(ups, t) == SelectSeq(ups, LAMBDA u : u.time >= t)

\* The diffs of one logical time
BatchAt(ups, t) == SelectSeq(ups, LAMBDA u : u.time = t)

Tuples(emitted, t) == { [data |-> e[1], time |-> t, diff |-> e[2]] : e \in emitted }

\* (mutation of ReduceStep: every diff of the batch is applied and recomputed on its own)
RECURSIVE ReduceStepEach(_, _, _, _)
ReduceStepEach(in, out, batch, t) ==
    IF batch = <<>> THEN [in |-> in, out |-> out, emitted |-> {}]
    ELSE LET newIn == Accumulate(in, <<Head(batch)>>)
             k == KeyOf(Head(batch).data)
             newOutK == ReduceKey(newIn, k)
             newOut == [r \in Records |-> IF RecKey(r) = k THEN newOutK[r] ELSE out[r]]
             rest == ReduceStepEach(newIn, newOut, Tail(batch), t)
         IN [in |-> rest.in, out |-> rest.out,
             emitted |-> Tuples(Change(out, newOut, k), t) \cup rest.emitted]

\* One logical time of the dataflow: the batch is merged into the input trace, every
\* key the batch changed is recomputed once, and the changes go to the sink.
ReduceStep(in, out, batch, t) ==
    LET newIn == Accumulate(in, batch)
        touched == { k \in Keys : \E p \in AllPrices : newIn[<<k, p>>] # in[<<k, p>>] }
        outs == [k \in Keys |-> IF k \in touched THEN ReduceKey(newIn, k) ELSE out]
        newOut == [r \in Records |-> outs[RecKey(r)][r]]
        emitted == UNION { Change(out, newOut, k) : k \in touched }
    IN [in |-> newIn, out |-> newOut, emitted |-> Tuples(emitted, t)]

----------------------------------------------------------------------------
(* Operations *)

Init ==
    /\ buffer = <<>>
    /\ time = 0
    /\ epoch = 0
    /\ sent = <<>>
    /\ closed = FALSE
    /\ done = 0
    /\ input_trace = ZeroTrace
    /\ output_trace = ZeroOut
    /\ sink = {}
    /\ prev_trace = ZeroTrace
    /\ nops = 0
    /\ panicked = FALSE
    /\ drawn = <<>>
    /\ owner = <<>>
    /\ returned = {}
    /\ wstate = <<>>

\* InputSession::flush: hand the staged updates to the dataflow, then advance the
\* input to the pending time
FlushedEpoch == IF epoch < time THEN time ELSE epoch

Flush ==
    /\ ~panicked /\ ~closed
    /\ sent' = sent \o buffer
    /\ buffer' = <<>>
    /\ epoch' = FlushedEpoch
    /\ UNCHANGED <<time, closed, done, input_trace, output_trace, sink, prev_trace, nops, panicked>>
    /\ UNCHANGED <<drawn, wvars>>

\* The worker closure returns: the session is dropped, which flushes it, and the
\* input handle is closed
Close ==
    /\ ~panicked /\ ~closed
    /\ sent' = sent \o buffer
    /\ buffer' = <<>>
    /\ epoch' = FlushedEpoch
    /\ closed' = TRUE
    /\ UNCHANGED <<time, done, input_trace, output_trace, sink, prev_trace, nops, panicked>>
    /\ UNCHANGED <<drawn, wvars>>

\* InputSession::update(element, change): a buffer at capacity is first handed to the
\* dataflow with send_batch, which leaves the input's epoch where it is.  Whether the
\* buffer is at capacity depends on the allocator, so both outcomes are possible.
StageUpdate(tr, d) ==
    /\ ~panicked /\ ~closed
    /\ nops < MaxOps
    /\ nops' = nops + 1
    /\ \E full \in BOOLEAN :
         IF full
         THEN /\ sent' = sent \o buffer
              /\ buffer' = <<Update(tr, time, d)>>
         ELSE /\ buffer' = Append(buffer, Update(tr, time, d))
              /\ UNCHANGED sent
    /\ UNCHANGED <<time, epoch, closed, done, input_trace, output_trace, sink, prev_trace, panicked>>
    /\ UNCHANGED wvars

\* input.insert(trade)
Insert == \E tr \in Trades : StageUpdate(tr, 1) /\ UNCHANGED drawn

\* the session's retraction of a trade (diff -1 on the Collection<G, Trade, isize>)
Remove == \E tr \in Trades : StageUpdate(tr, -1) /\ UNCHANGED drawn

\* The assertions of InputSession::advance_to(t) fail: the epoch or the pending time is
\* beyond t
AdvanceFails(t) == ~(epoch <= t /\ time <= t)

\* InputSession::advance_to(t): asserts that neither the epoch nor the pending time
\* is beyond t.  A failed assertion panics: the panic unwinds through the worker's
\* closure and drops the session, whose Drop runs flush() (the staged updates are handed
\* to the dataflow and the input is advanced to the pending time) and then drops the
\* handle, which closes the input.  The worker is gone, so the dataflow never runs again.
AdvanceTo ==
    /\ ~panicked /\ ~closed
    /\ \E t \in 0..AdvanceTime :
         IF AdvanceFails(t)
         THEN /\ panicked' = TRUE
              /\ sent' = sent \o buffer
              /\ buffer' = <<>>
              /\ epoch' = FlushedEpoch
              /\ closed' = TRUE
              /\ UNCHANGED time
         ELSE /\ time' = t
              /\ UNCHANGED <<panicked, buffer, sent, epoch, closed>>
    /\ UNCHANGED <<done, input_trace, output_trace, sink, prev_trace, nops>>
    /\ UNCHANGED <<drawn, wvars>>

\* The worker runs the dataflow for the least logical time that is complete
Step ==
    /\ ~panicked
    /\ Complete(done)
    /\ done <= time
    /\ LET res == ReduceStep(input_trace, output_trace, BatchAt(sent, done), done)
       IN /\ input_trace' = res.in
          /\ output_trace' = res.out
          /\ sink' = sink \cup res.emitted
    /\ prev_trace' = input_trace
    /\ sent' = SelectSeq(sent, LAMBDA u : u.time # done)
    /\ done' = done + 1
    /\ UNCHANGED <<buffer, time, epoch, closed, nops, panicked>>
    /\ UNCHANGED <<drawn, wvars>>

Next == Insert \/ Remove \/ AdvanceTo \/ Flush \/ Close \/ Step

Spec == Init /\ [][Next]_vars

----------------------------------------------------------------------------
(* The shipped program: generate_synthetic_trades on a single worker *)

\* (mutation of InLoops: trades are inserted after advance_to as well)
InLoopsOrAfter == TRUE

\* The generator is in its loops: advance_to has not been called
InLoops == time = 0

\* One pass of the inner loop: a trade is built from what was drawn and inserted.  The
\* outer loop goes through the markets in increasing order; both loops come before
\* advance_to.
GenInsert ==
    /\ InLoops
    /\ \E d \in GenDraws :
         /\ drawn # <<>> => drawn[Len(drawn)].market <= d.market
         /\ StageUpdate(TradeOf(d), 1)
         /\ drawn' = Append(drawn, d)

\* input.advance_to(1)
GenAdvance ==
    /\ time = 0
    /\ AdvanceTo
    /\ time' = AdvanceTime

\* input.flush()
GenFlush ==
    /\ time = AdvanceTime
    /\ epoch < AdvanceTime
    /\ Flush

\* generate_synthetic_trades has returned and the worker closure returns Ok(())
Return ==
    /\ time = AdvanceTime
    /\ epoch = AdvanceTime
    /\ Close

NextShipped == GenInsert \/ GenAdvance \/ GenFlush \/ Return \/ Step

SpecShipped == Init /\ [][NextShipped]_vars

\* The guard of Step
StepEnabled == ~panicked /\ Complete(done) /\ done <= time

\* A step of the worker as the counter of processed times shows it: Step is the only
\* action that changes done, and it is enabled exactly when its guard holds
StepTaken == StepEnabled /\ done' = done + 1

\* The loops of the generator are finite and followed by advance_to, flush and the
\* return of the closure; execute_from_args then steps the worker until the dataflow is
\* complete.
SpecShippedFair ==
    /\ SpecShipped
    /\ WF_vars(GenAdvance) /\ WF_vars(GenFlush) /\ WF_vars(Return)
    /\ WF_done(StepTaken)

----------------------------------------------------------------------------
(* The shipped program on several workers: every worker builds the dataflow, the      *)
(* worker with index 0 generates, and reduce exchanges its input between the workers *)
(* by key.                                                                            *)

NumWorkers == 2

Workers == 0..(NumWorkers - 1)

\* if index == 0 { generate_synthetic_trades(&mut input); }
Generates(w) == w = 0

\* The workers whose closure returns without touching their session
Peers == { w \in Workers : ~Generates(w) }

GenMarkets == { d.market : d \in GenDraws }
GenKeys == { KeyOf(tr) : tr \in GenTrades }

\* State after every worker has built its dataflow.  The exchange sends a key to the
\* worker its hash selects: a function of the key, the same on every worker.
InitWorkers ==
    /\ buffer = <<>>
    /\ time = 0
    /\ epoch = 0
    /\ sent = <<>>
    /\ closed = FALSE
    /\ done = 0
    /\ input_trace = ZeroTrace
    /\ output_trace = ZeroOut
    /\ sink = {}
    /\ prev_trace = ZeroTrace
    /\ nops = 0
    /\ panicked = FALSE
    /\ drawn = <<>>
    /\ owner \in [GenKeys -> Workers]
    /\ returned = {}
    /\ wstate = [w \in Workers |-> [done |-> 0, in |-> ZeroTrace, out |-> ZeroOut, sink |-> {}]]

\* The closure of a worker that does not generate returns: its unused session is
\* dropped and its input closed
PeerReturn(w) ==
    /\ w \notin returned
    /\ returned' = returned \cup {w}
    /\ UNCHANGED <<buffer, time, epoch, sent, closed, done, input_trace, output_trace, sink,
                   prev_trace, nops, panicked, drawn, owner, wstate>>

\* A logical time is complete when the input of every worker has advanced beyond it or
\* has closed; the input of a peer stays at time 0 until its closure returns
CompleteAll(t) == Complete(t) /\ Peers \subseteq returned

\* (mutation of Exchanged: every worker receives every diff)
ExchangedAll(ups, w) == ups

\* The diffs the exchange in front of reduce delivers to a worker: those of its keys
Exchanged(ups, w) == SelectSeq(ups, LAMBDA u : owner[KeyOf(u.data)] = w)

\* A worker runs its part of the dataflow for the least logical time that is complete
WorkerStep(w) ==
    /\ ~panicked
    /\ CompleteAll(wstate[w].done)
    /\ wstate[w].done <= time
    /\ LET t == wstate[w].done
           res == ReduceStep(wstate[w].in, wstate[w].out, Exchanged(BatchAt(sent, t), w), t)
       IN wstate' = [wstate EXCEPT ![w] = [done |-> t + 1, in |-> res.in, out |-> res.out,
                                           sink |-> @.sink \cup res.emitted]]
    /\ UNCHANGED <<buffer, time, epoch, sent, closed, done, input_trace, output_trace, sink,
                   prev_trace, nops, panicked, drawn, owner, returned>>

NextWorkers ==
    \/ GenInsert \/ GenAdvance \/ GenFlush \/ Return
    \/ \E w \in Peers : PeerReturn(w)
    \/ \E w \in Workers : WorkerStep(w)

SpecWorkers == InitWorkers /\ [][NextWorkers]_vars

----------------------------------------------------------------------------
(* Vocabulary of the properties *)

RECURSIVE SumDiffs(_)
SumDiffs(S) ==
    IF S = {} THEN 0
    ELSE LET s == CHOOSE x \in S : TRUE IN s.diff + SumDiffs(S \ {s})

\* Net multiplicity of a record at the sink
SinkSum(r) == SumDiffs({ s \in sink : s.data = r })

RecordsOf(k) == { r \in Records : RecKey(r) = k }

\* The records of a key that are live at the sink
Live(k) == { r \in RecordsOf(k) : SinkSum(r) > 0 }

\* The tuples the sink saw for a key at a logical time
EmittedAt(k, t) == { s \in sink : s.time = t /\ RecKey(s.data) = k }

MaxOf(S) == CHOOSE x \in S : \A y \in S : y <= x

PositivePrices(trace, k) == { p \in AllPrices : trace[<<k, p>>] > 0 }

\* A group is non-empty when its state holds an entry (a price of non-zero net
\* multiplicity); its high is the largest price it holds
NonEmpty(trace, k) == PricesOf(trace, k) # {}
High(trace, k) == MaxOf(PricesOf(trace, k))

\* The logical time of the latest step
LastTime == done - 1

SameExcept(a, b, k, p) == \A q \in AllPrices : q # p => a[<<k, q>>] = b[<<k, q>>]

----------------------------------------------------------------------------
(* Properties *)

\* C1: after every committed batch and for every group key, the live record's
\* high is the maximum of the prices whose net multiplicity is strictly positive, and a
\* group without such a price has no live record.
C1_HighIsMaxOfPositive ==
    \A k \in Keys :
        Live(k) = IF PositivePrices(input_trace, k) = {} THEN {}
                  ELSE { FHLLVData(k, MaxOf(PositivePrices(input_trace, k))) }

\* C2: for every group key the multiplicities of all records emitted so far sum
\* to 1 when the group is non-empty and to 0 otherwise, no record has a net
\* multiplicity other than 0 or 1, and at most one record of the key is live.
C2_OneLivePerKey ==
    \A k \in Keys :
        /\ SumDiffs({ s \in sink : RecKey(s.data) = k })
              = (IF NonEmpty(input_trace, k) THEN 1 ELSE 0)
        /\ \A r \in RecordsOf(k) : SinkSum(r) \in {0, 1}
        /\ Cardinality(Live(k)) <= 1

\* a record of some key has been retracted and the key has a live record again
C2_Witness ==
    \E s \in sink : s.diff = -1 /\ Live(RecKey(s.data)) # {}

\* C3: at every logical time the sink sees at most one retraction and at most
\* one insertion per group key, each of multiplicity one, however many diffs for that
\* key the batch held.
C3_OneChangePerKeyPerBatch ==
    \A k \in Keys : \A t \in 0..AdvanceTime :
        /\ Cardinality({ s \in EmittedAt(k, t) : s.diff > 0 }) <= 1
        /\ Cardinality({ s \in EmittedAt(k, t) : s.diff < 0 }) <= 1
        /\ \A s \in EmittedAt(k, t) : s.diff \in {-1, 1}

\* the latest batch changed two prices of one group, whose record it replaced
C3_Witness ==
    /\ done > 0
    /\ \E k \in Keys :
         /\ Cardinality({ p \in AllPrices : input_trace[<<k, p>>] # prev_trace[<<k, p>>] }) >= 2
         /\ Cardinality(EmittedAt(k, LastTime)) = 2

\* C4: a batch that changes a group's state while the group stays non-empty with
\* the same high emits nothing for the key, and whatever is emitted for a key comes with
\* a changed high or a flip between empty and non-empty.
C4_NoEmissionWithoutChange ==
    done > 0 =>
        \A k \in Keys :
            /\ ( /\ NonEmpty(prev_trace, k) /\ NonEmpty(input_trace, k)
                 /\ High(prev_trace, k) = High(input_trace, k) )
               => EmittedAt(k, LastTime) = {}
            /\ EmittedAt(k, LastTime) # {}
               => \/ NonEmpty(prev_trace, k) # NonEmpty(input_trace, k)
                  \/ High(prev_trace, k) # High(input_trace, k)

\* the latest batch changed a group's state, left its high as it was, and emitted nothing
C4_Witness ==
    /\ done > 0
    /\ \E k \in Keys :
         /\ \E p \in AllPrices : input_trace[<<k, p>>] # prev_trace[<<k, p>>]
         /\ NonEmpty(prev_trace, k) /\ NonEmpty(input_trace, k)
         /\ High(prev_trace, k) = High(input_trace, k)
         /\ EmittedAt(k, LastTime) = {}
         /\ Live(k) = { FHLLVData(k, High(input_trace, k)) }

\* C5: a batch that changes a non-empty group's high from h to another value h'
\* while the group stays non-empty emits, for that key, exactly the retraction of the
\* record with high h and the insertion of the record with high h', the largest of the
\* remaining prices.
C5_ReplaceHigh ==
    done > 0 =>
        \A k \in Keys :
            ( /\ NonEmpty(prev_trace, k) /\ NonEmpty(input_trace, k)
              /\ High(prev_trace, k) # High(input_trace, k) )
            => EmittedAt(k, LastTime) =
                 { [data |-> FHLLVData(k, High(prev_trace, k)), time |-> LastTime, diff |-> -1],
                   [data |-> FHLLVData(k, High(input_trace, k)), time |-> LastTime, diff |-> 1] }

\* the latest batch retracted the only 15 of a group in which a 10 remains
C5_Witness ==
    /\ done > 0
    /\ \E k \in Keys :
         /\ prev_trace[<<k, 15>>] = 1 /\ prev_trace[<<k, 10>>] = 1
         /\ input_trace[<<k, 15>>] = 0 /\ input_trace[<<k, 10>>] = 1
         /\ PositivePrices(input_trace, k) = {10}
         /\ Live(k) = { FHLLVData(k, 10) }

\* C6: when a group holds its highest price at least twice and a batch retracts
\* one instance of it and nothing else of the group, nothing is emitted for the key and
\* the live record stays the record of that price.
C6_TieStability ==
    done > 0 =>
        \A k \in Keys :
            ( /\ NonEmpty(prev_trace, k)
              /\ prev_trace[<<k, High(prev_trace, k)>>] >= 2
              /\ input_trace[<<k, High(prev_trace, k)>>]
                    = prev_trace[<<k, High(prev_trace, k)>>] - 1
              /\ SameExcept(input_trace, prev_trace, k, High(prev_trace, k)) )
            => /\ EmittedAt(k, LastTime) = {}
               /\ Live(k) = { FHLLVData(k, High(prev_trace, k)) }

\* the latest batch retracted one of two instances of the highest price of a group
C6_Witness ==
    /\ done > 0
    /\ \E k \in Keys :
         /\ prev_trace[<<k, 15>>] = 2 /\ input_trace[<<k, 15>>] = 1
         /\ SameExcept(input_trace, prev_trace, k, 15)
         /\ High(prev_trace, k) = 15
         /\ Live(k) = { FHLLVData(k, 15) }

\* Nothing is staged or on its way to the dataflow.  Every state of the reduce operator
\* the program reaches, it also reaches with nothing else pending, so the properties
\* that apply further batches to the operator's state are evaluated in these states.
Quiescent == buffer = <<>> /\ sent = <<>>

\* C7: from every reachable engine state and for every diff d, applying d and
\* then its exact negation, in one batch or in two successive batches, gives back the
\* accumulated input and the produced output the engine had before d, and the tuples
\* emitted on the way cancel for every record; a run that has negated its whole input
\* leaves no record live.
C7_RetractionInverse ==
    /\ Quiescent =>
         \A tr \in Trades : \A d \in {-1, 1} :
            /\ ReduceStep(input_trace, output_trace,
                          <<Update(tr, done, d), Update(tr, done, -d)>>, done)
                 = [in |-> input_trace, out |-> output_trace, emitted |-> {}]
            /\ LET r1 == ReduceStep(input_trace, output_trace, <<Update(tr, done, d)>>, done)
                   r2 == ReduceStep(r1.in, r1.out, <<Update(tr, done + 1, -d)>>, done + 1)
               IN /\ r2.in = input_trace /\ r2.out = output_trace
                  /\ \A r \in Records :
                       SumDiffs({ s \in r1.emitted \cup r2.emitted : s.data = r }) = 0
    /\ (done = 2 /\ input_trace = ZeroTrace)
         => \A k \in Keys : Live(k) = {} /\ \A r \in RecordsOf(k) : SinkSum(r) = 0

\* a diff was committed at time 0 and its negation at time 1: the record that came
\* up has been retracted and no record is live
C7_Witness ==
    /\ done = 2 /\ nops = 2
    /\ prev_trace # ZeroTrace /\ input_trace = ZeroTrace
    /\ Cardinality(sink) = 2
    /\ \A k \in Keys : Live(k) = {}

Support(trace) == [kv \in KVs |-> IF trace[kv] # 0 THEN 1 ELSE 0]

\* C8: from every reachable engine state, inserting a record twice and
\* retracting it once, in one batch or in three successive ones, produces the output a
\* single insertion produces; and the records live at the sink are those the closure
\* gives for the set of prices present, whatever their multiplicities.
C8_ReplayIdempotent ==
    /\ Quiescent => \A tr \in Trades :
         LET single == ReduceStep(input_trace, output_trace, <<Update(tr, done, 1)>>, done)
             batch == ReduceStep(input_trace, output_trace,
                                 <<Update(tr, done, 1), Update(tr, done, 1),
                                   Update(tr, done, -1)>>, done)
             a == ReduceStep(single.in, single.out, <<Update(tr, done + 1, 1)>>, done + 1)
             b == ReduceStep(a.in, a.out, <<Update(tr, done + 2, -1)>>, done + 2)
         IN /\ batch.out = single.out /\ batch.emitted = single.emitted
            /\ b.out = single.out
    /\ \A k \in Keys : \A r \in RecordsOf(k) :
         SinkSum(r) = ReduceKey(Support(input_trace), k)[r]

\* three calls: a price was inserted twice at time 0 and retracted once at time 1, and
\* the record of the single price is live
C8_Witness ==
    /\ done = 2 /\ nops = 3
    /\ \E k \in Keys : \E p \in AllPrices :
         /\ prev_trace[<<k, p>>] = 2 /\ input_trace[<<k, p>>] = 1
         /\ Live(k) = { FHLLVData(k, p) }
         /\ EmittedAt(k, 1) = {}

InsertAt(seq, i, x) == SubSeq(seq, 1, i - 1) \o <<x>> \o SubSeq(seq, i, Len(seq))

\* All orders of a sequence
RECURSIVE Perms(_)
Perms(seq) ==
    IF seq = <<>> THEN { <<>> }
    ELSE UNION { { InsertAt(q, i, Head(seq)) : i \in 1..(Len(q) + 1) } : q \in Perms(Tail(seq)) }

\* C9: when the dataflow is about to run a committed batch, in whatever order
\* the diffs of the batch were staged it emits the same set of tuples and ends with the
\* same accumulated input and output.
C9_OrderIndependent ==
    (~panicked /\ Complete(done) /\ done <= time) =>
        \A res \in { ReduceStep(input_trace, output_trace, BatchAt(sent, done), done) } :
            \A q \in Perms(BatchAt(sent, done)) :
                ReduceStep(input_trace, output_trace, q, done) = res

\* a committed batch holds a trade with a later timestamp ahead of one with an earlier
\* timestamp
C9_Witness ==
    /\ Complete(done)
    /\ \E i, j \in DOMAIN sent :
         /\ i < j
         /\ sent[i].time = done /\ sent[j].time = done
         /\ sent[i].data.timestamp > sent[j].data.timestamp
         /\ KeyOf(sent[i].data) = KeyOf(sent[j].data)

\* The sink has seen only logical times the input has completed, and neither a staged
\* nor an undelivered diff belongs to a logical time the dataflow has processed
StagedInvisible ==
    /\ \A s \in sink : s.time < done /\ (closed \/ s.time < epoch)
    /\ \A i \in DOMAIN buffer : buffer[i].time >= done /\ buffer[i].time >= epoch
    /\ \A i \in DOMAIN sent : sent[i].time >= done
    /\ ~closed => done <= epoch

\* Staged diffs are handed over all at once, the sink sees nothing at that moment, and a
\* flush leaves the stage buffer empty
FlushAtomic ==
    /\ (sent' # sent /\ done' = done) => (sent' = sent \o buffer /\ sink' = sink)
    /\ (nops' = nops /\ (epoch' # epoch \/ closed' # closed \/ (sent' # sent /\ done' = done)))
         => buffer' = <<>>
    /\ buffer' # buffer => sink' = sink

\* C10: staged records have no effect downstream before the flush that commits
\* them: the sink only ever sees completed logical times, to which no staged diff
\* belongs; a flush hands over all staged diffs together and empties the stage buffer.
C10_NoEffectBeforeFlush == []StagedInvisible /\ [][FlushAtomic]_vars

\* the sink has seen the first batch while diffs staged after it are still in the buffer
C10_Witness ==
    /\ sink # {}
    /\ buffer # <<>>
    /\ ~closed

\* The session is open: its methods can be called
SessionOpen == ~panicked /\ ~closed

\* A step in which advance_to failed
AdvanceFailed == ~panicked /\ panicked'

\* A logical time has been committed: the input has been advanced past time 0, so the
\* last committed logical time is epoch - 1
HasCommitted == epoch > 0

\* C11: once a logical time has been committed, advance_to(t) fails for every t that
\* is not strictly greater than the last committed logical time, and a step in which
\* such an advance_to fails leaves the session's pending time, its staged diffs, what
\* has been handed to the dataflow, the input's epoch and openness, and the engine
\* state and sink unchanged: nothing is flushed.
C11_FailedAdvanceChangesNothing ==
    /\ []((SessionOpen /\ HasCommitted) =>
            \A t \in 0..AdvanceTime : t <= epoch - 1 => AdvanceFails(t))
    /\ [][(AdvanceFailed /\ HasCommitted /\ time = epoch) =>
            UNCHANGED <<time, buffer, sent, epoch, closed, done, input_trace,
                        output_trace, sink>>]_vars

\* C12: for every timestamp, negative ones included, the bucket a trade is keyed
\* by is the mathematical floor to the hour: a multiple of 3600 that is not above the
\* timestamp and less than 3600 below it.
C12_BucketIsFloor ==
    \A i \in DOMAIN sent :
        LET ts == sent[i].data.timestamp
            hour == KeyOf(sent[i].data)[1]
        IN /\ hour % 3600 = 0
           /\ hour <= ts
           /\ ts - hour \in 0..3599

\* The tuples a step adds to the sink for a key: those of the logical time it ran
NewFor(k) == { s \in sink' \ sink : RecKey(s.data) = k }

\* A step of the dataflow
Stepped == done' = done + 1

\* C13: a batch that removes everything a group held makes the dataflow retract
\* the group's live record and insert nothing; no record whose high is Decimal::MIN is
\* ever emitted; and a group that holds nothing has no live record.
C13_EmptiedGroupRetracts ==
    /\ [](\A s \in sink : s.data.high # DecimalMIN)
    /\ [](\A k \in Keys : ~NonEmpty(input_trace, k) => Live(k) = {})
    /\ [][Stepped =>
            \A k \in Keys :
                (NonEmpty(input_trace, k) /\ ~NonEmpty(input_trace', k))
                => NewFor(k) = { [data |-> FHLLVData(k, High(input_trace, k)),
                                  time |-> done, diff |-> -1] }]_vars

\* the batch of time 1 removed the only price a group held: its record was retracted at
\* time 1 and nothing else was emitted for it
C13_Witness ==
    /\ done = 2
    /\ \E k \in Keys :
         /\ PricesOf(prev_trace, k) = {15}
         /\ ~NonEmpty(input_trace, k)
         /\ EmittedAt(k, 1) = { [data |-> FHLLVData(k, 15), time |-> 1, diff |-> -1] }
         /\ Live(k) = {}

\* Net multiplicity of a record over the tuples of logical times up to t
SinkSumUpTo(r, t) == SumDiffs({ s \in sink : s.data = r /\ s.time <= t })

\* C14: every tuple the sink sees has multiplicity -1 or +1; a tuple of
\* multiplicity -1 retracts a record that was inserted at an earlier logical time and is
\* live when the retraction is emitted; and the multiplicities of a record, summed up to
\* any logical time, give 0 or 1.
C14_RetractionsMatchInsertions ==
    /\ [](\A s \in sink : s.diff \in {-1, 1})
    /\ [](\A r \in Records : \A t \in 0..AdvanceTime : SinkSumUpTo(r, t) \in {0, 1})
    /\ [][Stepped =>
            \A s \in sink' \ sink :
                s.diff = -1 =>
                    /\ SinkSum(s.data) = 1
                    /\ \E e \in sink : e.data = s.data /\ e.diff = 1 /\ e.time < s.time]_vars

\* a record inserted at time 0 was retracted at time 1, where another record of the key
\* was inserted
C14_Witness ==
    \E r, q \in Records :
        /\ r # q /\ RecKey(r) = RecKey(q)
        /\ [data |-> r, time |-> 0, diff |-> 1] \in sink
        /\ [data |-> r, time |-> 1, diff |-> -1] \in sink
        /\ [data |-> q, time |-> 1, diff |-> 1] \in sink
        /\ SinkSum(r) = 0 /\ SinkSum(q) = 1

\* The batch the step is about to run holds a diff for the key
InBatch(k) == \E i \in DOMAIN sent : sent[i].time = done /\ KeyOf(sent[i].data) = k

\* The accumulated input of one key alone
OnlyKey(trace, k) == [kv \in KVs |-> IF kv[1] = k THEN trace[kv] ELSE 0]

\* Running the diffs of two keys one key after the other, in either order, or together
\* gives the same traces and the same tuples
SplitByKey(u1, u2) ==
    LET both == ReduceStep(input_trace, output_trace, <<u1, u2>>, done)
        a == ReduceStep(input_trace, output_trace, <<u1>>, done)
        ab == ReduceStep(a.in, a.out, <<u2>>, done)
        b == ReduceStep(input_trace, output_trace, <<u2>>, done)
        ba == ReduceStep(b.in, b.out, <<u1>>, done)
    IN /\ ab.in = both.in /\ ab.out = both.out
       /\ ba.in = both.in /\ ba.out = both.out
       /\ a.emitted \cup ab.emitted = both.emitted
       /\ b.emitted \cup ba.emitted = both.emitted

\* C15: a batch without a diff for a key leaves that key's accumulated input, its
\* produced output and its live record as they are and emits nothing for it; what is
\* produced for a key is a function of that key's accumulated input alone; and the
\* diffs of two keys give the same result run key by key, in either order, or together.
C15_KeysIndependent ==
    /\ [][Stepped =>
            \A k \in Keys :
                ~InBatch(k) =>
                    /\ \A p \in AllPrices : input_trace'[<<k, p>>] = input_trace[<<k, p>>]
                    /\ \A r \in RecordsOf(k) : output_trace'[r] = output_trace[r]
                    /\ NewFor(k) = {}
                    /\ Live(k)' = Live(k)]_vars
    /\ [](\A k \in Keys : \A r \in RecordsOf(k) :
            output_trace[r] = ReduceKey(OnlyKey(input_trace, k), k)[r])
    /\ [](Quiescent =>
            \A tr1, tr2 \in Trades : \A d1, d2 \in {-1, 1} :
                KeyOf(tr1) # KeyOf(tr2)
                => SplitByKey(Update(tr1, done, d1), Update(tr2, done, d2)))

\* the batch of time 1 held diffs of one key only and changed that key's record, while
\* the record another key got at time 0 is still live
C15_Witness ==
    /\ done = 2
    /\ \E k1, k2 \in Keys :
         /\ k1 # k2
         /\ EmittedAt(k1, 1) # {}
         /\ EmittedAt(k2, 0) # {} /\ EmittedAt(k2, 1) = {}
         /\ \A p \in AllPrices : input_trace[<<k2, p>>] = prev_trace[<<k2, p>>]
         /\ Live(k2) # {}

RECURSIVE TraceTotal(_, _)
TraceTotal(trace, S) ==
    IF S = {} THEN 0
    ELSE LET kv == CHOOSE x \in S : TRUE IN trace[kv] + TraceTotal(trace, S \ {kv})

\* The number of records committed: handed to the dataflow or in the engine's state
Committed == Len(sent) + TraceTotal(input_trace, KVs)

\* The draws whose price sample Decimal does not hold exactly
Malformed == { i \in DOMAIN drawn : ~Exact(drawn[i].sample) }

\* The generator has flushed its batch
GenFlushed == time = AdvanceTime /\ epoch = AdvanceTime

\* C16: a record whose price cannot be represented exactly as a decimal is
\* rejected: once the generator has flushed the N records it built, K of them
\* malformed, exactly N-K records are committed, and no record built from a malformed
\* draw is ever handed to the dataflow.
C16_MalformedRejected ==
    /\ GenFlushed => Committed = Len(drawn) - Cardinality(Malformed)
    /\ \A i \in Malformed : \A j \in DOMAIN sent : sent[j].data # TradeOf(drawn[i])

\* The records the closure gives for a key's accumulated input
Aggregate(trace, k) == { r \in RecordsOf(k) : ReduceKey(trace, k)[r] > 0 }

\* C17: the dataflow runs the logical times in increasing order: a step emits
\* tuples of its own time only, which is later than every time the sink has seen, and
\* never touches a tuple of an earlier time; it applies exactly the committed diffs of its
\* time, none of a later one, leaves none of its time or an earlier one behind, and brings
\* every key's live record to the aggregate of the diffs applied so far.
C17_TimeOrder ==
    [][Stepped =>
        /\ \A s \in sink : s.time < done /\ s \in sink'
        /\ \A s \in sink' \ sink : s.time = done
        /\ input_trace' = Accumulate(input_trace, SelectSeq(sent, LAMBDA u : u.time = done))
        /\ \A i \in DOMAIN sent' : sent'[i].time > done
        /\ \A i \in DOMAIN buffer' : buffer'[i].time > done
        /\ \A k \in Keys : Live(k)' = Aggregate(input_trace', k)]_vars

\* time 0 has been run while a committed diff of time 1 with a higher price is pending
\* for a key; the key's live record is the one of its time-0 diffs
C17_Witness ==
    /\ done = 1
    /\ \E i \in DOMAIN sent :
         LET k == KeyOf(sent[i].data)
         IN /\ sent[i].time = 1 /\ sent[i].diff = 1
            /\ NonEmpty(input_trace, k)
            /\ sent[i].data.price > High(input_trace, k)
            /\ Live(k) = { FHLLVData(k, High(input_trace, k)) }

\* The generator has built a trade of the market
Assigned(m) == \E i \in DOMAIN drawn : drawn[i].market = m

\* The generator has built a trade of the group
Received(k) == \E i \in DOMAIN drawn : KeyOf(TradeOf(drawn[i])) = k

\* C18: once the generator has flushed its batch, every market it built a trade
\* for eventually has an emitted record, and every (hour, market) group it built a trade
\* for eventually has a live record at the sink, which then stays live.
C18_EveryMarketEmitted ==
    /\ \A m \in GenMarkets :
          (GenFlushed /\ Assigned(m))
              ~> (\E s \in sink : s.data.market = m /\ s.diff = 1)
    /\ \A k \in GenKeys :
          (GenFlushed /\ Received(k)) ~> [](Live(k) # {})

\* the generator built trades for both markets and each of the two groups has a live
\* record at the sink
C18_Witness ==
    /\ GenFlushed
    /\ \A m \in GenMarkets : Assigned(m)
    /\ \A k \in GenKeys : Received(k) /\ Live(k) # {}
    /\ Cardinality({ s.data.market : s \in sink }) = 2

\* The tuples the sink has seen for a key
TuplesOf(k) == { s \in sink : RecKey(s.data) = k }

\* C19: in the shipped program every trade is staged with multiplicity +1 at
\* logical time 0, before the single advance_to(1), so the input is one batch; the sink
\* sees only tuples of multiplicity +1, all of time 0, and once the batch has been run
\* exactly one tuple for every (hour, market) group the generator built a trade for and
\* none for any other.
C19_SingleInsertOnlyBatch ==
    /\ [](\A i \in DOMAIN buffer : buffer[i].time = 0 /\ buffer[i].diff = 1)
    /\ [](\A i \in DOMAIN sent : sent[i].time = 0 /\ sent[i].diff = 1)
    /\ [](\A s \in sink : s.diff = 1 /\ s.time = 0)
    /\ [](done >= 1 =>
            \A k \in Keys : Cardinality(TuplesOf(k)) = (IF Received(k) THEN 1 ELSE 0))
    /\ [][/\ time # 0 => (nops' = nops /\ drawn' = drawn)
          /\ time' # time => (time = 0 /\ time' = AdvanceTime)]_vars

\* the generator built three trades, two of them of one group, and the run is over: the
\* sink has seen one tuple for each of the two groups
C19_Witness ==
    /\ closed /\ done = 2
    /\ Len(drawn) = 3
    /\ Cardinality({ KeyOf(TradeOf(drawn[i])) : i \in DOMAIN drawn }) = 2
    /\ Cardinality(sink) = 2
    /\ \A s \in sink : s.diff = 1

\* The run of a single worker on the diffs handed to the dataflow, up to a logical time
RECURSIVE RunTo(_, _)
RunTo(ups, t) ==
    IF t < 0 THEN [in |-> ZeroTrace, out |-> ZeroOut, emitted |-> {}]
    ELSE LET before == RunTo(ups, t - 1)
             res == ReduceStep(before.in, before.out, BatchAt(ups, t), t)
         IN [in |-> res.in, out |-> res.out, emitted |-> before.emitted \cup res.emitted]

\* The tuples all workers have emitted for logical times up to t
UnionUpTo(t) == UNION { { s \in wstate[w].sink : s.time <= t } : w \in Workers }

\* The workers at which a tuple of the key has been seen
EmittersOf(k) == { w \in Workers : \E s \in wstate[w].sink : RecKey(s.data) = k }

\* C20: with several workers only worker 0 hands diffs to the dataflow (the
\* return of a peer's closure hands over nothing); the tuples of a key are emitted by the
\* one worker the key is exchanged to; and once every worker has run a logical time, the
\* union of the workers' tuples up to that time is what a single worker emits on the same
\* input, each tuple at one worker only.
C20_WorkersPartitionKeys ==
    /\ [](\A k \in GenKeys : EmittersOf(k) \subseteq {owner[k]})
    /\ [](\A w \in Workers : \A s \in wstate[w].sink : RecKey(s.data) \in GenKeys)
    /\ [](\A t \in 0..AdvanceTime :
            (\A w \in Workers : wstate[w].done > t)
            => /\ UnionUpTo(t) = RunTo(sent, t).emitted
               /\ \A s \in UnionUpTo(t) :
                    Cardinality({ w \in Workers : s \in wstate[w].sink }) = 1)
    /\ [][returned' # returned => UNCHANGED <<buffer, time, epoch, sent, closed>>]_vars

\* the two groups of the input are exchanged to different workers, every worker has run
\* both logical times, and each has emitted the record of its group
C20_Witness ==
    /\ \A w \in Workers : wstate[w].done = 2
    /\ \E k1, k2 \in GenKeys :
         /\ owner[k1] # owner[k2]
         /\ EmittersOf(k1) = {owner[k1]}
         /\ EmittersOf(k2) = {owner[k2]}
    /\ Len(sent) = 3

====
